---------------------------- MODULE Spec2Model ----------------------------
(***************************************************************************)
(* Model of DispaSET/preprocessing/utils.py, function clustering():        *)
(* merging of power-plant rows into clusters, the index<->name mapping and *)
(* the per-method post-processing.                                         *)
(*                                                                         *)
(* Numbers are exact rationals <<n, d>> (d > 0, lowest terms); the         *)
(* floating-point rounding of the Python arithmetic is not modelled.       *)
(* Strings are sequences of one-character strings.                         *)
(***************************************************************************)
EXTENDS Integers, Sequences, FiniteSets, TLC

(***************************************************************************)
(* Bounds of the model.                                                    *)
(***************************************************************************)
MaxUnits == 3

(***************************************************************************)
(* Exact rational arithmetic (Python floats with `from __future__ import   *)
(* division`).                                                             *)
(***************************************************************************)
Abs(x) == IF x < 0 THEN -x ELSE x

RECURSIVE GCD(_, _)
GCD(a, b) == IF b = 0 THEN a ELSE GCD(b, a % b)

Norm(n, d) ==
    LET s == IF d < 0 THEN -1 ELSE 1
        g == GCD(Abs(n), Abs(d))
    IN  <<(s * n) \div g, (s * d) \div g>>

R(n) == <<n, 1>>
Q(n, d) == Norm(n, d)

RAdd(x, y) == Norm(x[1] * y[2] + y[1] * x[2], x[2] * y[2])
RSub(x, y) == Norm(x[1] * y[2] - y[1] * x[2], x[2] * y[2])
RMul(x, y) == Norm(x[1] * y[1], x[2] * y[2])
RDiv(x, y) == Norm(x[1] * y[2], x[2] * y[1])
RLeq(x, y) == x[1] * y[2] <= y[1] * x[2]
RLt(x, y) == x[1] * y[2] < y[1] * x[2]
RAbs(x) == <<Abs(x[1]), x[2]>>
RMin(x, y) == IF RLeq(x, y) THEN x ELSE y

\* np.round: nearest integer, halves to the even neighbour
RRound(x) ==
    LET f == x[1] \div x[2]
        r == x[1] % x[2]
    IN  IF 2 * r < x[2] THEN R(f)
        ELSE IF 2 * r > x[2] THEN R(f + 1)
        ELSE IF f % 2 = 0 THEN R(f) ELSE R(f + 1)

RECURSIVE RSum(_)
RSum(s) == IF s = <<>> THEN R(0) ELSE RAdd(Head(s), RSum(Tail(s)))

(***************************************************************************)
(* Strings.                                                                *)
(***************************************************************************)
Digit == <<"0", "1", "2", "3", "4", "5", "6", "7", "8", "9">>

\* str(n) for a non-negative integer
RECURSIVE IntStr(_)
IntStr(n) == IF n < 10 THEN <<Digit[n + 1]>>
             ELSE IntStr(n \div 10) \o <<Digit[(n % 10) + 1]>>

\* str(list) of a list of integers: "[0, 3, 4]"
RECURSIVE JoinInts(_)
JoinInts(l) == IF l = <<>> THEN <<>>
               ELSE IF Len(l) = 1 THEN IntStr(l[1])
               ELSE IntStr(l[1]) \o <<",", " ">> \o JoinInts(Tail(l))

ListStr(l) == <<"[">> \o JoinInts(l) \o <<"]">>

Dash == <<" ", "-", " ">>

\* str.rstrip(): drop trailing whitespace
RECURSIVE rstrip(_)
rstrip(s) == IF s # <<>> /\ s[Len(s)] = " " THEN rstrip(SubSeq(s, 1, Len(s) - 1))
             ELSE s

\* misc/str_handler.py: characters that are not allowed in a symbol name
UnsafeChars == {"*", "'"}

clean_strings(s) == SelectSeq(s, LAMBDA c : c \notin UnsafeChars)

NameMax == 64

shrink_to_64(s) == IF Len(s) > NameMax THEN SubSeq(s, 1, NameMax) ELSE s

\* a missing value (NaN) in a string column
NaN == <<"NaN">>
Empty == <<>>

fillna(v) == IF v = NaN THEN Empty ELSE v

(***************************************************************************)
(* Columns of the plants table.                                            *)
(***************************************************************************)
required_inputs ==
    {"Unit", "PowerCapacity", "PartLoadMin", "RampUpRate", "RampDownRate",
     "StartUpTime", "MinUpTime", "MinDownTime", "NoLoadCost", "StartUpCost",
     "Efficiency"}

string_keys == {"Zone", "Technology", "Fuel", "CHPType"}

string_key_order == <<"Zone", "Technology", "Fuel", "CHPType">>

CapacityKeys == {"PowerCapacity", "STOCapacity", "STOMaxChargingPower", "InitialPower"}

LPAverageKeys ==
    {"RampUpRate", "RampDownRate", "MinUpTime", "MinDownTime", "NoLoadCost",
     "Efficiency", "MinEfficiency", "STOChargingEfficiency", "CO2Intensity",
     "STOSelfDischarge"}

StandardAverageKeys == LPAverageKeys \cup {"CHPPowerToHeat", "CHPPowerLossFactor"}

MinimumKeys == {"PartLoadMin", "StartUpTime"}

IntegerAverageKeys ==
    {"PowerCapacity", "RampUpRate", "RampDownRate", "MinUpTime", "MinDownTime",
     "NoLoadCost", "Efficiency", "MinEfficiency", "STOChargingEfficiency",
     "CO2Intensity", "STOSelfDischarge", "STOCapacity", "STOMaxChargingPower",
     "InitialPower", "PartLoadMin", "StartUpTime", "RampingCost"}

RoundingKeys ==
    {"PowerCapacity", "STOCapacity", "STOMaxChargingPower", "InitialPower", "NoLoadCost"}

AllColumns ==
    required_inputs \cup string_keys \cup StandardAverageKeys \cup CapacityKeys
        \cup {"RampingCost", "Nunits"}

Methods == {"Standard", "MILP", "LP clustered", "LP", "Integer clustering", "No clustering"}

\* default arguments of clustering()
Nslices == 20
PartLoadMax == Q(1, 10)
Pmax == R(30)


(***************************************************************************)
(* FingerprintEncoder: slicing bounds and nearest-bound search.            *)
(***************************************************************************)
\* np.linspace(low, high, N) for integers low and high; the fractions are left unreduced
RECURSIVE linspaceUpTo(_, _, _, _)
linspaceUpTo(low, high, N, k) ==
    IF k = 0 THEN <<>>
    ELSE Append(linspaceUpTo(low, high, N, k - 1),
                <<low * (N - 1) + (k - 1) * (high - low), N - 1>>)

linspace(low, high, N) == linspaceUpTo(low, high, N, N)

\* np.logspace(0, log10(37), 20) - 1, in hundredths
LogTable36 ==
    <<0, 21, 46, 77, 114, 159, 213, 278, 357, 453, 569,
      709, 878, 1083, 1331, 1630, 1992, 2430, 2960, 3600>>

\* np.logspace(0, log10(169), 20) - 1, in hundredths
LogTable168 ==
    <<0, 31, 72, 125, 194, 286, 405, 562, 767, 1036, 1388,
      1849, 2453, 3245, 4281, 5639, 7418, 9749, 12801, 16800>>

\* _mylogspace(0, high, 20) for the two ranges clustering() uses
RECURSIVE Hundredths(_, _)
Hundredths(t, k) == IF k = 0 THEN <<>> ELSE Append(Hundredths(t, k - 1), <<t[k], 100>>)

mylogspace(low, high, N) ==
    Hundredths(IF high = 36 THEN LogTable36 ELSE LogTable168, N)

\* |x - y| <= |u - v| and |x - y| < |u - v|, without reducing the fractions
DistLt(x, y, u, v) ==
    Abs(x[1] * y[2] - y[1] * x[2]) * (u[2] * v[2])
        < Abs(u[1] * v[2] - v[1] * u[2]) * (x[2] * y[2])

\* np.argmin over array[k..]: the first index whose distance is the smallest
RECURSIVE ArgMin(_, _, _, _)
ArgMin(array, value, k, best) ==
    IF k > Len(array) THEN best
    ELSE IF DistLt(array[k], value, array[best], value)
         THEN ArgMin(array, value, k + 1, k)
         ELSE ArgMin(array, value, k + 1, best)

\* 0-based index of the first bound nearest to value
find_nearest(array, value) == ArgMin(array, value, 2, 1) - 1

\* line 198-202: the slicing bounds of each fingerprinted column
UnitBounds == linspace(0, 1, Nslices)
StartUpTimeBounds == mylogspace(0, 36, Nslices)
UpDownTimeBounds == mylogspace(0, 168, Nslices)
NoLoadCostBounds == linspace(0, 50, Nslices)
StartUpCostBounds == linspace(0, 500, Nslices)

bounds ==
    [PartLoadMin  |-> UnitBounds,
     RampUpRate   |-> UnitBounds,
     RampDownRate |-> UnitBounds,
     StartUpTime  |-> StartUpTimeBounds,
     MinUpTime    |-> UpDownTimeBounds,
     MinDownTime  |-> UpDownTimeBounds,
     NoLoadCost   |-> NoLoadCostBounds,
     StartUpCost  |-> StartUpCostBounds,
     Efficiency   |-> UnitBounds]

FingerprintKeys ==
    <<"PartLoadMin", "RampUpRate", "RampDownRate", "StartUpTime", "MinUpTime",
      "MinDownTime", "NoLoadCost", "StartUpCost", "Efficiency">>

Fingerprint(row) ==
    [k \in 1..Len(FingerprintKeys) |->
        find_nearest(bounds[FingerprintKeys[k]], row[FingerprintKeys[k]])]

(***************************************************************************)
(* Input tables: rows drawn from a catalogue of plants, restricted to the  *)
(* columns of the table.                                                   *)
(***************************************************************************)
LongName == [k \in 1..70 |-> IF k = 3 THEN "*" ELSE "x"]

BasePlant ==
    [Unit |-> <<"a">>,
     Zone |-> <<"Z", "1">>, Technology |-> <<"C", "O", "M", "C">>,
     Fuel |-> <<"G", "A", "S">>, CHPType |-> Empty,
     PowerCapacity |-> R(10), PartLoadMin |-> Q(2, 5),
     RampUpRate |-> Q(1, 100), RampDownRate |-> Q(1, 100),
     StartUpTime |-> R(5), MinUpTime |-> R(4), MinDownTime |-> R(4),
     NoLoadCost |-> R(5), StartUpCost |-> R(100), Efficiency |-> Q(2, 5),
     RampingCost |-> R(0), Nunits |-> R(1),
     STOCapacity |-> R(0), STOMaxChargingPower |-> R(0), InitialPower |-> R(0),
     MinEfficiency |-> Q(3, 10), STOChargingEfficiency |-> R(1),
     CO2Intensity |-> Q(1, 2), STOSelfDischarge |-> R(0),
     CHPPowerToHeat |-> R(0), CHPPowerLossFactor |-> R(0)]

\* small unit with a missing CHPType, another cost and efficiency
PlantB == [BasePlant EXCEPT !.Unit = <<"b", " ">>, !.CHPType = NaN,
                            !.PowerCapacity = R(20), !.NoLoadCost = R(7),
                            !.Efficiency = Q(4, 5), !.RampingCost = R(2)]
\* large inflexible unit with a high minimum load
PlantC == [BasePlant EXCEPT !.Unit = <<"c">>, !.PowerCapacity = R(40)]
\* large inflexible unit with a low minimum load
PlantD == [BasePlant EXCEPT !.Unit = <<"d">>, !.PowerCapacity = R(40),
                            !.PartLoadMin = R(0)]
\* large highly flexible unit
PlantE == [BasePlant EXCEPT !.Unit = <<"e">>, !.PowerCapacity = R(40),
                            !.RampUpRate = R(1), !.RampDownRate = R(1),
                            !.StartUpTime = R(0), !.MinUpTime = R(1),
                            !.MinDownTime = R(1)]
\* three identical small storage units in one row
PlantF == [BasePlant EXCEPT !.Unit = <<"f">>, !.Nunits = R(3),
                            !.STOCapacity = R(4), !.STOMaxChargingPower = R(2),
                            !.InitialPower = R(1)]
\* small unit of another technology, with a long name
PlantG == [BasePlant EXCEPT !.Unit = LongName,
                            !.Technology = <<"S", "T", "U", "R">>]

Catalogue == {PlantB, PlantC, PlantD, PlantE, PlantF, PlantG}

BasicColumns == required_inputs \cup string_keys

ColumnChoices ==
    {AllColumns, BasicColumns, AllColumns \ {"Efficiency"}}

MethodChoices == Methods \cup {"Foo"}

Restrict(row, cols) == [c \in cols |-> row[c]]

(***************************************************************************)
(* State of one call of clustering().                                      *)
(***************************************************************************)
VARIABLES
    pc,                  \* position in clustering()
    input,               \* the table as passed: [columns, rows]
    method,              \* the method argument
    columns,             \* plants.columns
    plants,              \* rows of the (mutated in place) plants table
    OnlyOnes,
    fingerprints,
    fingerprints_merged,
    plants_merged,
    map_old_new,
    map_plant_orig,
    i,                   \* 0-based index of the next plant to be added
    mapping,
    result,              \* the returned pair, or None
    previous             \* what the caller kept of an earlier call on the same rows

vars == <<pc, input, method, columns, plants, OnlyOnes, fingerprints,
          fingerprints_merged, plants_merged, map_old_new, map_plant_orig, i,
          mapping, result, previous>>

None == <<"None">>

EmptyMapping == [NewIndex |-> <<>>, FormerIndexes |-> <<>>]

NoPrevious == [called |-> FALSE, perm |-> <<>>, map_plant_orig |-> <<>>, result |-> None]

Init ==
    /\ pc = "idle"
    /\ input = [columns |-> {}, rows |-> <<>>]
    /\ method = None
    /\ columns = {}
    /\ plants = <<>>
    /\ OnlyOnes = FALSE
    /\ fingerprints = <<>>
    /\ fingerprints_merged = <<>>
    /\ plants_merged = <<>>
    /\ map_old_new = <<>>
    /\ map_plant_orig = <<>>
    /\ i = 0
    /\ mapping = EmptyMapping
    /\ result = None
    /\ previous = NoPrevious

\* a caller invokes clustering(plants, method)
Call ==
    /\ pc = "idle"
    /\ \E cols \in ColumnChoices, n \in 0..MaxUnits, m \in MethodChoices :
          \E rows \in [1..n -> {Restrict(r, cols) : r \in Catalogue}] :
             /\ input' = [columns |-> cols, rows |-> rows]
             /\ columns' = cols
             /\ plants' = rows
             /\ method' = m
    /\ pc' = "check"
    /\ UNCHANGED <<previous, OnlyOnes, fingerprints, fingerprints_merged, plants_merged,
                   map_old_new, map_plant_orig, i, mapping, result>>

\* lines 156-187: required columns, Nunits default, method validation
WithNunits(rows, cols) ==
    [k \in 1..Len(rows) |->
        [c \in cols \cup {"Nunits"} |->
            IF c = "Nunits" /\ c \notin cols THEN R(1) ELSE rows[k][c]]]

AllOnes(rows) == \A k \in 1..Len(rows) : rows[k]["Nunits"] = R(1)

\* variant: Nunits is reset without scaling the capacity columns
Expand_KeepCapacity(rows) ==
    [k \in 1..Len(rows) |->
        [c \in DOMAIN rows[k] |-> IF c = "Nunits" THEN R(1) ELSE rows[k][c]]]

\* lines 174-177: remove multiple-units plants
Expand(rows) ==
    [k \in 1..Len(rows) |->
        [c \in DOMAIN rows[k] |->
            IF c \in CapacityKeys THEN RMul(rows[k]["Nunits"], rows[k][c])
            ELSE IF c = "Nunits" THEN R(1)
            ELSE rows[k][c]]]

\* variant: the final else branch of the chain is missing
ValidMethod_Any(m) == TRUE

\* lines 167-187: the methods the if/elif chain accepts
ValidMethod(m) == m \in Methods

CheckInputs ==
    /\ pc = "check"
    /\ IF ~(required_inputs \subseteq columns)
       THEN /\ pc' = "fatal"
            /\ UNCHANGED <<columns, plants, OnlyOnes>>
       ELSE LET rows == WithNunits(plants, columns)
                ones == AllOnes(rows)
            IN  /\ columns' = columns \cup {"Nunits"}
                /\ IF method = "LP clustered" /\ ~ones
                   THEN plants' = Expand(rows) /\ OnlyOnes' = TRUE
                   ELSE plants' = rows /\ OnlyOnes' = ones
                /\ pc' = IF ValidMethod(method) THEN "slice" ELSE "fatal"
    /\ UNCHANGED <<previous, input, method, fingerprints, fingerprints_merged, plants_merged,
                   map_old_new, map_plant_orig, i, mapping, result>>


\* lines 189-230: index reset, mapping variables, fingerprints, NaN filling
FillStrings(rows) ==
    [k \in 1..Len(rows) |->
        [c \in DOMAIN rows[k] |->
            IF c \in string_keys THEN fillna(rows[k][c]) ELSE rows[k][c]]]

Prepare ==
    /\ pc = "slice"
    /\ map_old_new' = [k \in 1..Len(plants) |-> 0]
    /\ map_plant_orig' = <<>>
    /\ fingerprints' = [k \in 1..Len(plants) |-> Fingerprint(plants[k])]
    /\ fingerprints_merged' = <<>>
    /\ plants_merged' = <<>>
    /\ plants' = FillStrings(plants)
    /\ i' = 0
    /\ pc' = IF Len(plants) = 0 THEN "name" ELSE "scan"
    /\ UNCHANGED <<previous, input, method, columns, OnlyOnes, mapping, result>>

(***************************************************************************)
(* ClusteringEngine: lines 232-315.  Plants and clusters are numbered from *)
(* 0 as in the source; plant ii is plants[ii + 1].                         *)
(***************************************************************************)
same_type(ii, j) ==
    \A key \in string_keys :
        fillna(plants[ii + 1][key]) = fillna(plants_merged[j + 1][key])

same_fingerprint(ii, j) == fingerprints[ii + 1] = fingerprints_merged[j + 1]

low_pmin(ii) == RLeq(plants[ii + 1]["PartLoadMin"], PartLoadMax)

low_pmax(ii) == RLeq(plants[ii + 1]["PowerCapacity"], Pmax)

highly_flexible(ii) ==
    /\ RLt(Q(1, 60), plants[ii + 1]["RampUpRate"])
    /\ RLt(Q(1, 60), plants[ii + 1]["RampDownRate"])
    /\ RLt(plants[ii + 1]["StartUpTime"], R(1))
    /\ RLeq(plants[ii + 1]["MinDownTime"], R(1))
    /\ RLeq(plants[ii + 1]["MinUpTime"], R(1))

\* variant: the Nunits precondition of Standard/MILP merging is not tested
cluster_IgnoreOnes(ii, j) ==
    /\ same_type(ii, j)
    /\ \/ same_fingerprint(ii, j) /\ low_pmin(ii)
       \/ highly_flexible(ii)
       \/ low_pmax(ii)

cluster(ii, j) ==
    /\ OnlyOnes
    /\ same_type(ii, j)
    /\ \/ same_fingerprint(ii, j) /\ low_pmin(ii)
       \/ highly_flexible(ii)
       \/ low_pmax(ii)

\* variant: LP clustered applies the eligibility test of Standard
MergeTest_LPEligibility(ii, j) ==
    \/ method \in {"Standard", "MILP", "LP clustered"} /\ cluster(ii, j)
    \/ method = "Integer clustering" /\ same_type(ii, j)

\* variant: the passthrough method LP takes the LP clustered branch
MergeTest_LPMerges(ii, j) ==
    \/ method \in {"Standard", "MILP"} /\ cluster(ii, j)
    \/ method \in {"LP clustered", "LP"} /\ same_type(ii, j) /\ OnlyOnes
    \/ method = "Integer clustering" /\ same_type(ii, j)

\* the branch conditions of lines 243, 270 and 296
MergeTest(ii, j) ==
    \/ method \in {"Standard", "MILP"} /\ cluster(ii, j)
    \/ method = "LP clustered" /\ same_type(ii, j) /\ OnlyOnes
    \/ method = "Integer clustering" /\ same_type(ii, j)

\* variant: a plain mean that ignores the weights
WeightedAverage_Unweighted(a, wa, b, wb) == RDiv(RAdd(a, b), R(2))

WeightedAverage(a, wa, b, wb) ==
    RDiv(RAdd(RMul(a, wa), RMul(b, wb)), RAdd(wb, wa))

\* lines 261-263 and 287-289
RampingCostMerge(old, new) ==
    LET P_old == old["PowerCapacity"]
        P_add == new["PowerCapacity"]
        Cost_to_fullload ==
            RAdd(RMul(RMul(P_add, RSub(R(1), new["PartLoadMin"])), new["RampingCost"]),
                 new["StartUpCost"])
    IN  RDiv(RAdd(RMul(P_old, old["RampingCost"]), Cost_to_fullload),
             RAdd(P_old, P_add))

\* lines 244-265
StandardMerge(old, new) ==
    LET P_old == old["PowerCapacity"]
        P_add == new["PowerCapacity"]
    IN  [key \in DOMAIN old |->
            IF key \in StandardAverageKeys
            THEN WeightedAverage(old[key], P_old, new[key], P_add)
            ELSE IF key \in CapacityKeys
            THEN RAdd(old[key], new[key])
            ELSE IF key \in MinimumKeys
            THEN RDiv(RMin(RMul(old[key], P_old), RMul(new[key], P_add)),
                      RAdd(P_add, P_old))
            ELSE IF key = "RampingCost" THEN RampingCostMerge(old, new)
            ELSE IF key = "Nunits" THEN R(1)
            ELSE old[key]]

\* variant: the capacity columns are averaged like the other numeric columns
LPClusteredMerge_AverageCapacity(old, new) ==
    LET P_old == old["PowerCapacity"]
        P_add == new["PowerCapacity"]
    IN  [key \in DOMAIN old |->
            IF key \in LPAverageKeys \cup CapacityKeys
            THEN WeightedAverage(old[key], P_old, new[key], P_add)
            ELSE IF key \in MinimumKeys THEN R(0)
            ELSE IF key = "RampingCost" THEN RampingCostMerge(old, new)
            ELSE IF key = "Nunits" THEN R(1)
            ELSE old[key]]

\* lines 271-291
LPClusteredMerge(old, new) ==
    LET P_old == old["PowerCapacity"]
        P_add == new["PowerCapacity"]
    IN  [key \in DOMAIN old |->
            IF key \in LPAverageKeys
            THEN WeightedAverage(old[key], P_old, new[key], P_add)
            ELSE IF key \in CapacityKeys
            THEN RAdd(old[key], new[key])
            ELSE IF key \in MinimumKeys THEN R(0)
            ELSE IF key = "RampingCost" THEN RampingCostMerge(old, new)
            ELSE IF key = "Nunits" THEN R(1)
            ELSE old[key]]

\* variant: Nunits is set to 1 as in the other two branches
IntegerMerge_ResetNunits(old, new) ==
    [key \in DOMAIN old |->
        IF key \in IntegerAverageKeys
        THEN WeightedAverage(old[key], old["Nunits"], new[key], new["Nunits"])
        ELSE IF key = "Nunits" THEN R(1)
        ELSE old[key]]

\* lines 297-303
IntegerMerge(old, new) ==
    [key \in DOMAIN old |->
        IF key \in IntegerAverageKeys
        THEN WeightedAverage(old[key], old["Nunits"], new[key], new["Nunits"])
        ELSE IF key = "Nunits" THEN RAdd(old["Nunits"], new["Nunits"])
        ELSE old[key]]

MergeRows(old, new) ==
    IF method \in {"Standard", "MILP"} THEN StandardMerge(old, new)
    ELSE IF method = "LP clustered" THEN LPClusteredMerge(old, new)
    ELSE IntegerMerge(old, new)

\* variant: the merged plant is not recorded in its cluster
AppendMember_Lost(orig, j, ii) == orig

\* lines 267, 293, 306: map_plant_orig[j].append(i)
AppendMember(orig, j, ii) == [orig EXCEPT ![j + 1] = Append(@, ii)]

\* the clusters plant ii passes the merge test with
Matches(ii) == {j \in 0..(Len(plants_merged) - 1) : MergeTest(ii, j)}

\* variant: the clusters are tested from the most recent one backwards
FirstMatch_Reversed(ii) == CHOOSE j \in Matches(ii) : ~(\E k \in Matches(ii) : k > j)

\* variant: the loop over j does not stop at the first match
FirstMatch_Last(ii) == CHOOSE j \in Matches(ii) : \A k \in Matches(ii) : k <= j

\* the loop over j stops at the first match
FirstMatch(ii) == CHOOSE j \in Matches(ii) : \A k \in Matches(ii) : j <= k

ScanUnit ==
    /\ pc = "scan"
    /\ i < Len(plants)
    /\ IF Matches(i) # {}
       THEN LET j == FirstMatch(i)
            IN  /\ plants_merged' =
                      [plants_merged EXCEPT ![j + 1] = MergeRows(@, plants[i + 1])]
                /\ map_old_new' = [map_old_new EXCEPT ![i + 1] = j]
                /\ map_plant_orig' = AppendMember(map_plant_orig, j, i)
                /\ UNCHANGED fingerprints_merged
       ELSE /\ plants_merged' = Append(plants_merged, plants[i + 1])
            /\ map_plant_orig' = Append(map_plant_orig, <<i>>)
            /\ map_old_new' = [map_old_new EXCEPT ![i + 1] = Len(map_plant_orig)]
            /\ fingerprints_merged' = Append(fingerprints_merged, fingerprints[i + 1])
    /\ i' = i + 1
    /\ pc' = IF i + 1 = Len(plants) THEN "name" ELSE "scan"
    /\ UNCHANGED <<previous, input, method, columns, plants, OnlyOnes, fingerprints, mapping,
                   result>>

(***************************************************************************)
(* NameResolver: lines 317-341.                                            *)
(***************************************************************************)
RECURSIVE all_stringkeys(_, _)
all_stringkeys(row, keys) ==
    IF keys = <<>> THEN <<>>
    ELSE Dash \o row[Head(keys)] \o all_stringkeys(row, Tail(keys))

NewName(j) ==
    LET members == map_plant_orig[j + 1]
        raw == IF Len(members) = 1
               THEN ListStr(members) \o Dash \o plants_merged[j + 1]["Unit"]
               ELSE ListStr(members) \o all_stringkeys(plants_merged[j + 1], string_key_order)
    IN  rstrip(shrink_to_64(clean_strings(raw)))

\* a dictionary filled for j = 0, 1, ...: a later write to a key replaces the earlier
LastWriter(S) == CHOOSE j \in S : \A k \in S : k <= j

BuildMapping ==
    LET Nunits_merged == Len(plants_merged)
        J == 0..(Nunits_merged - 1)
        names == {NewName(j) : j \in J}
        olds == UNION {{map_plant_orig[j + 1][k] : k \in 1..Len(map_plant_orig[j + 1])} : j \in J}
        holds(j, old) == \E k \in 1..Len(map_plant_orig[j + 1]) : map_plant_orig[j + 1][k] = old
    IN  [FormerIndexes |->
            [nm \in names |-> map_plant_orig[LastWriter({j \in J : NewName(j) = nm}) + 1]],
         NewIndex |->
            [old \in olds |-> NewName(LastWriter({j \in J : holds(j, old)}))]]

ResolveNames ==
    /\ pc = "name"
    /\ mapping' = BuildMapping
    /\ plants_merged' =
          [k \in 1..Len(plants_merged) |-> [plants_merged[k] EXCEPT !["Unit"] = NewName(k - 1)]]
    /\ pc' = "post"
    /\ UNCHANGED <<previous, input, method, columns, plants, OnlyOnes, fingerprints,
                   fingerprints_merged, map_old_new, map_plant_orig, i, result>>

(***************************************************************************)
(* PostProcessor and return: lines 343-367.                                *)
(***************************************************************************)
\* lines 345-349
RampingFromStartUp(rows) ==
    [k \in 1..Len(rows) |->
        IF rows[k]["RampingCost"] = R(0)
        THEN [rows[k] EXCEPT !["RampingCost"] =
                 RDiv(rows[k]["StartUpCost"], rows[k]["PowerCapacity"])]
        ELSE rows[k]]

\* variant: the rescaling and the Nunits assignment sit inside the loop of line 353
RoundNunits_AllRows(rows) ==
    [idx \in 1..Len(rows) |->
        [key \in DOMAIN rows[idx] |->
            IF key \in RoundingKeys
            THEN RDiv(RMul(rows[idx][key], RRound(rows[idx]["Nunits"])), rows[idx]["Nunits"])
            ELSE IF key = "Nunits" THEN RRound(rows[idx]["Nunits"])
            ELSE rows[idx][key]]]

\* lines 353-358: idx and N are those left by the last pass of the loop of line 353
RoundNunits(rows) ==
    LET idx == Len(rows)
        N == RRound(rows[idx]["Nunits"])
    IN  [rows EXCEPT ![idx] =
            [key \in DOMAIN rows[idx] |->
                IF key \in RoundingKeys
                THEN RDiv(RMul(rows[idx][key], N), rows[idx]["Nunits"])
                ELSE IF key = "Nunits" THEN N
                ELSE rows[idx][key]]]

\* an uncaught exception: RampingCost column missing (line 346), idx unbound (line 357)
PostProcessRaises ==
    \/ method = "LP clustered" /\ "RampingCost" \notin columns /\ Len(plants_merged) > 0
    \/ method = "Integer clustering" /\ Len(plants_merged) = 0

PostProcess ==
    /\ pc = "post"
    /\ IF PostProcessRaises
       THEN /\ pc' = "error"
            /\ UNCHANGED <<plants_merged, result>>
       ELSE /\ plants_merged' =
                  IF method = "LP clustered" THEN RampingFromStartUp(plants_merged)
                  ELSE IF method = "Integer clustering" THEN RoundNunits(plants_merged)
                  ELSE plants_merged
            /\ result' = [plants_merged |-> plants_merged', mapping |-> mapping]
            /\ pc' = "done"
    /\ UNCHANGED <<previous, input, method, columns, plants, OnlyOnes, fingerprints,
                   fingerprints_merged, map_old_new, map_plant_orig, i, mapping>>

Next ==
    \/ Call
    \/ CheckInputs
    \/ Prepare
    \/ ScanUnit
    \/ ResolveNames
    \/ PostProcess

Spec == Init /\ [][Next]_vars


(***************************************************************************)
(* Properties.                                                             *)
(***************************************************************************)
Elems(s) == {s[k] : k \in 1..Len(s)}

NIn == Len(input.rows)

OriginalIndexes == 0..(NIn - 1)

\* Nunits of input row k (1-based), 1 when the column is absent
InNunits(k) == IF "Nunits" \in input.columns THEN input.rows[k]["Nunits"] ELSE R(1)

InputHasMultipleUnits == \E k \in 1..NIn : InNunits(k) # R(1)

\* the categorical tuple of input row k, missing values read as empty strings
InType(k) == [key \in string_keys |-> fillna(input.rows[k][key])]

InputAccepted == required_inputs \subseteq input.columns /\ method \in Methods

Scanned == pc \in {"scan", "name", "post", "done", "error"}

\* the cluster (0-based) that holds original index ii
ClusterOf(ii) ==
    CHOOSE j \in 0..(Len(map_plant_orig) - 1) : ii \in Elems(map_plant_orig[j + 1])

\* C1: when clustering() returns, the FormerIndexes lists are pairwise
\* disjoint, their union is the set of original indices 0..N-1, and NewIndex
\* has one entry per original index i, naming the list that holds i.
C1_Partition ==
    pc = "done" =>
        LET FI == result.mapping.FormerIndexes
            NI == result.mapping.NewIndex
        IN  /\ \A a, b \in DOMAIN FI : a # b => Elems(FI[a]) \cap Elems(FI[b]) = {}
            /\ \A a \in DOMAIN FI : Cardinality(Elems(FI[a])) = Len(FI[a])
            /\ UNION {Elems(FI[a]) : a \in DOMAIN FI} = OriginalIndexes
            /\ DOMAIN NI = OriginalIndexes
            /\ \A idx \in DOMAIN NI : NI[idx] \in DOMAIN FI /\ idx \in Elems(FI[NI[idx]])

\* a returned mapping with a merged cluster, a single-plant cluster and a truncated name
C1_Witness ==
    /\ pc = "done"
    /\ NIn = 3
    /\ \E a, b \in DOMAIN result.mapping.FormerIndexes :
          /\ Len(result.mapping.FormerIndexes[a]) = 2
          /\ Len(result.mapping.FormerIndexes[b]) = 1
          /\ Len(b) = NameMax

\* C4: an unrecognised method or a missing required column ends the call
\* before any merged table or mapping exists; nothing is returned.
C4_FatalNoOutput ==
    (pc \notin {"idle", "check"} /\ ~InputAccepted) =>
        /\ pc = "fatal"
        /\ result = None
        /\ plants_merged = <<>>
        /\ map_plant_orig = <<>>
        /\ mapping = EmptyMapping

\* the call with method "Foo" on a complete table has terminated
C4_Witness ==
    /\ pc = "fatal"
    /\ method = "Foo"
    /\ required_inputs \subseteq input.columns
    /\ NIn = 2


ColumnSum(rows, key) == RSum([k \in 1..Len(rows) |-> rows[k][key]])

\* the capacity a table stands for: PowerCapacity of a row times its number of units
OutputCapacity ==
    RSum([k \in 1..Len(result.plants_merged) |->
             RMul(result.plants_merged[k]["PowerCapacity"], result.plants_merged[k]["Nunits"])])

InputCapacity ==
    RSum([k \in 1..NIn |-> RMul(input.rows[k]["PowerCapacity"], InNunits(k))])

\* C2 (as stated): for every method the PowerCapacity column of the merged
\* output sums to the same value as the PowerCapacity column of the input.
C2_Original ==
    pc = "done" =>
        ColumnSum(result.plants_merged, "PowerCapacity") = ColumnSum(input.rows, "PowerCapacity")

\* C2 (amended): for every method the sum of PowerCapacity * Nunits over the
\* output rows equals the sum of PowerCapacity * Nunits over the input rows
\* (Nunits 1 when absent); the plain PowerCapacity sums agree for the methods
\* other than LP clustered and Integer clustering.
C2_Conservation ==
    pc = "done" =>
        /\ OutputCapacity = InputCapacity
        /\ method \notin {"LP clustered", "Integer clustering"} =>
              ColumnSum(result.plants_merged, "PowerCapacity")
                  = ColumnSum(input.rows, "PowerCapacity")

\* Integer clustering has merged rows of different capacity: the column sum changed
C2_Witness ==
    /\ pc = "done"
    /\ method = "Integer clustering"
    /\ Len(result.plants_merged) < NIn
    /\ ColumnSum(result.plants_merged, "PowerCapacity") # ColumnSum(input.rows, "PowerCapacity")

UnchangedExact(out, in, cols) == \A c \in cols \ {"Unit"} : out[c] = in[c]

UnchangedFilled(out, in, cols) ==
    \A c \in cols \ {"Unit"} : out[c] = IF c \in string_keys THEN fillna(in[c]) ELSE in[c]

\* every plant scanned so far is a cluster of its own
NoMergeSoFar == map_plant_orig = [k \in 1..i |-> <<k - 1>>]

NoMergeMapping ==
    \A idx \in OriginalIndexes :
        result.mapping.FormerIndexes[result.mapping.NewIndex[idx]] = <<idx>>

Passthrough == {"No clustering", "LP"}

\* C3 (as stated): under No clustering and LP the output has one row per input
\* row, in order, every attribute but the Unit name unchanged, and
\* FormerIndexes[NewIndex[i]] = [i].
C3_Original ==
    (pc = "done" /\ method \in Passthrough) =>
        /\ Len(result.plants_merged) = NIn
        /\ \A k \in 1..NIn :
              UnchangedExact(result.plants_merged[k], input.rows[k], input.columns)
        /\ NoMergeMapping

\* C3 (amended): as stated, except that a missing Zone, Technology, Fuel or
\* CHPType value is output as the empty string; no merge happens at any step.
C3_Passthrough ==
    (Scanned /\ method \in Passthrough) =>
        /\ NoMergeSoFar
        /\ pc = "done" =>
              /\ Len(result.plants_merged) = NIn
              /\ \A k \in 1..NIn :
                    UnchangedFilled(result.plants_merged[k], input.rows[k], input.columns)
              /\ NoMergeMapping

\* LP has returned a table holding twin small plants with a missing CHPType
C3_Witness ==
    /\ pc = "done"
    /\ method = "LP"
    /\ NIn = 3
    /\ input.rows[1] = input.rows[2]
    /\ input.rows[1]["PowerCapacity"] = R(20)
    /\ input.rows[1]["CHPType"] = NaN
    /\ "Nunits" \in input.columns

StandardLike == {"Standard", "MILP"}

\* C5 (as stated): Standard/MILP with some Nunits different from 1 is not
\* fatal and merges nothing; the output rows equal the input rows.
C5_Original ==
    (pc \notin {"idle", "check"} /\ method \in StandardLike
        /\ required_inputs \subseteq input.columns /\ InputHasMultipleUnits) =>
        /\ pc \notin {"fatal", "error"}
        /\ pc = "done" =>
              /\ Len(result.plants_merged) = NIn
              /\ \A k \in 1..NIn :
                    UnchangedExact(result.plants_merged[k], input.rows[k], input.columns)
              /\ NoMergeMapping

\* C5 (amended): as stated, the attribute values being the input's except that
\* a missing Zone, Technology, Fuel or CHPType value is output as the empty
\* string (and the Unit name is rewritten).
C5_NoMergeFallback ==
    (pc \notin {"idle", "check"} /\ method \in StandardLike
        /\ required_inputs \subseteq input.columns /\ InputHasMultipleUnits) =>
        /\ pc \notin {"fatal", "error"}
        /\ Scanned => NoMergeSoFar
        /\ pc = "done" =>
              /\ Len(result.plants_merged) = NIn
              /\ \A k \in 1..NIn :
                    UnchangedFilled(result.plants_merged[k], input.rows[k], input.columns)
              /\ NoMergeMapping

\* MILP has returned a table whose first two rows are twin three-unit plants
C5_Witness ==
    /\ pc = "done"
    /\ method = "MILP"
    /\ NIn = 3
    /\ InNunits(1) = R(3)
    /\ input.rows[1] = input.rows[2]
    /\ input.rows[3]["CHPType"] = NaN


Clusters == 0..(Len(map_plant_orig) - 1)

FirstMember(j) == map_plant_orig[j + 1][1]

\* sum over the members of cluster j of f(input row)
MemberSum(j, f(_)) ==
    RSum([k \in 1..Len(map_plant_orig[j + 1]) |-> f(map_plant_orig[j + 1][k] + 1)])

InPower(k) == input.rows[k]["PowerCapacity"]

InCostTimesPower(k) == RMul(input.rows[k]["NoLoadCost"], input.rows[k]["PowerCapacity"])

\* C6: under Standard every cluster's PowerCapacity is the sum of its members'
\* PowerCapacity and its NoLoadCost their capacity-weighted mean, whatever the
\* order of the merges; capacities 10 and 20 with NoLoadCost 5 and 7 give 30
\* and 190/30.
C6_StandardReduction ==
    (Scanned /\ method = "Standard") =>
        \A j \in Clusters :
            /\ plants_merged[j + 1]["PowerCapacity"] = MemberSum(j, InPower)
            /\ plants_merged[j + 1]["NoLoadCost"]
                  = RDiv(MemberSum(j, InCostTimesPower), MemberSum(j, InPower))
            /\ ({<<InPower(m + 1), input.rows[m + 1]["NoLoadCost"]>> :
                    m \in Elems(map_plant_orig[j + 1])} = {<<R(10), R(5)>>, <<R(20), R(7)>>}
                /\ Len(map_plant_orig[j + 1]) = 2) =>
                  /\ plants_merged[j + 1]["PowerCapacity"] = R(30)
                  /\ plants_merged[j + 1]["NoLoadCost"] = Q(190, 30)

\* the two plants of the example have been merged, the larger one first
C6_Witness ==
    /\ pc = "done"
    /\ method = "Standard"
    /\ \E j \in Clusters :
          /\ Len(map_plant_orig[j + 1]) = 2
          /\ InPower(map_plant_orig[j + 1][1] + 1) = R(20)
          /\ input.rows[map_plant_orig[j + 1][1] + 1]["NoLoadCost"] = R(7)
          /\ InPower(map_plant_orig[j + 1][2] + 1) = R(10)
          /\ input.rows[map_plant_orig[j + 1][2] + 1]["NoLoadCost"] = R(5)
          /\ plants_merged[j + 1]["PowerCapacity"] = R(30)

InExpandedPower(k) == RMul(InNunits(k), input.rows[k]["PowerCapacity"])

\* C7: under LP clustered with some Nunits different from 1, the capacity
\* columns of every row are multiplied by the row's Nunits and Nunits is set
\* to 1 on all rows before the first merge test; merging works on the expanded
\* rows and every output row has Nunits 1.
C7_PreExpansion ==
    (pc \notin {"idle", "check"} /\ method = "LP clustered"
        /\ required_inputs \subseteq input.columns /\ InputHasMultipleUnits) =>
        /\ OnlyOnes
        /\ \A k \in 1..NIn :
              /\ plants[k]["Nunits"] = R(1)
              /\ \A c \in CapacityKeys \cap input.columns :
                    plants[k][c] = RMul(InNunits(k), input.rows[k][c])
        /\ Scanned =>
              \A j \in Clusters :
                  /\ plants_merged[j + 1]["Nunits"] = R(1)
                  /\ plants_merged[j + 1]["PowerCapacity"] = MemberSum(j, InExpandedPower)
        /\ pc = "done" =>
              \A k \in 1..Len(result.plants_merged) : result.plants_merged[k]["Nunits"] = R(1)

\* a three-unit row of 10 per unit entered the scan as one unit of 30 and was
\* merged with another plant
C7_Witness ==
    /\ pc = "done"
    /\ method = "LP clustered"
    /\ NIn = 3
    /\ InNunits(1) = R(3)
    /\ input.rows[1]["PowerCapacity"] = R(10)
    /\ plants[1]["PowerCapacity"] = R(30)
    /\ plants[1]["STOCapacity"] = R(12)
    /\ Len(map_plant_orig[1]) = 2

\* the clusters that exist when plant ii is scanned
EarlierClusters(ii) == {j \in Clusters : FirstMember(j) < ii}

\* the eligibility test of Standard, taken against the first member of cluster j
EligibleFor(ii, j) ==
    /\ InType(ii + 1) = InType(FirstMember(j) + 1)
    /\ \/ fingerprints[ii + 1] = fingerprints[FirstMember(j) + 1] /\ low_pmin(ii)
       \/ highly_flexible(ii)
       \/ low_pmax(ii)

EligibleClusters(ii) == {j \in EarlierClusters(ii) : EligibleFor(ii, j)}

\* C8: under Standard/MILP with all Nunits 1, plants are taken in row order and
\* plant ii joins the eligible cluster of lowest creation index, eligibility
\* being tested against the fingerprint of the cluster's first member; with no
\* eligible cluster it starts a new cluster after the existing ones.
C8_GreedyFirstMatch ==
    (Scanned /\ method \in StandardLike /\ ~InputHasMultipleUnits) =>
        /\ \A j1, j2 \in Clusters : j1 < j2 => FirstMember(j1) < FirstMember(j2)
        /\ \A ii \in 0..(i - 1) :
              IF EligibleClusters(ii) = {}
              THEN /\ FirstMember(ClusterOf(ii)) = ii
                   /\ ClusterOf(ii) = Cardinality(EarlierClusters(ii))
              ELSE /\ ClusterOf(ii) \in EligibleClusters(ii)
                   /\ \A j \in EligibleClusters(ii) : ClusterOf(ii) <= j

\* the third plant was eligible for two clusters and joined the earlier one
C8_Witness ==
    /\ pc = "done"
    /\ method = "Standard"
    /\ ~InputHasMultipleUnits
    /\ NIn = 3
    /\ EligibleClusters(2) = {0, 1}
    /\ ClusterOf(2) = 0

\* C9 (as stated): under LP clustered a plant is merged into a cluster only if
\* the eligibility test of Standard holds.
C9_Original ==
    (Scanned /\ method = "LP clustered") =>
        \A ii \in 0..(i - 1) :
            FirstMember(ClusterOf(ii)) # ii => EligibleFor(ii, ClusterOf(ii))

\* C9 (amended): under LP clustered merging depends on the categorical tuple
\* alone: two plants are in the same cluster exactly when they have the same
\* Zone, Technology, Fuel and CHPType, whatever the fingerprint, flexibility
\* and Pmax tests say.
C9_SameTypeOnly ==
    (Scanned /\ method = "LP clustered") =>
        \A a, b \in 0..(i - 1) :
            (ClusterOf(a) = ClusterOf(b)) <=> (InType(a + 1) = InType(b + 1))

\* a plant that fails the fingerprint, flexibility and Pmax tests was merged
C9_Witness ==
    /\ pc = "done"
    /\ method = "LP clustered"
    /\ \E ii \in 0..(i - 1) :
          /\ FirstMember(ClusterOf(ii)) # ii
          /\ ~EligibleFor(ii, ClusterOf(ii))

InTypes == {InType(k) : k \in 1..NIn}

\* C10: under Integer clustering two plants share a cluster exactly when their
\* categorical tuples (missing read as empty) are identical, the output has
\* one row per distinct tuple, and before the rounding step the Nunits of a
\* cluster is the sum of its members' Nunits.
C10_IntegerClustering ==
    (Scanned /\ method = "Integer clustering") =>
        /\ \A a, b \in 0..(i - 1) :
              (ClusterOf(a) = ClusterOf(b)) <=> (InType(a + 1) = InType(b + 1))
        /\ pc \in {"name", "post", "error"} => Len(plants_merged) = Cardinality(InTypes)
        /\ pc = "done" => Len(result.plants_merged) = Cardinality(InTypes)
        /\ pc # "done" =>
              \A j \in Clusters : plants_merged[j + 1]["Nunits"] = MemberSum(j, InNunits)

\* a three-unit row and a large inflexible plant of the same tuple share a
\* cluster of four units; the third plant has another tuple
C10_Witness ==
    /\ pc = "post"
    /\ method = "Integer clustering"
    /\ NIn = 3
    /\ Len(plants_merged) = 2
    /\ \E j \in Clusters :
          /\ Len(map_plant_orig[j + 1]) = 2
          /\ plants_merged[j + 1]["Nunits"] = R(4)
          /\ \E m \in Elems(map_plant_orig[j + 1]) : ~low_pmax(m) /\ ~low_pmin(m)


(***************************************************************************)
(* Tables whose Nunits column holds fractional values, as the rounding of  *)
(* lines 351-358 expects.                                                  *)
(***************************************************************************)
\* one and a half small storage units
PlantH == [PlantF EXCEPT !.Unit = <<"h">>, !.Nunits = Q(3, 2)]
\* two and a half small units of the other technology
PlantI == [PlantG EXCEPT !.Unit = <<"i">>, !.Nunits = Q(5, 2)]

FractionalCatalogue == {PlantB, PlantG, PlantH, PlantI}

CallFractional ==
    /\ pc = "idle"
    /\ \E cols \in ColumnChoices, n \in 0..MaxUnits, m \in MethodChoices :
          \E rows \in [1..n -> {Restrict(r, cols) : r \in FractionalCatalogue}] :
             /\ input' = [columns |-> cols, rows |-> rows]
             /\ columns' = cols
             /\ plants' = rows
             /\ method' = m
    /\ pc' = "check"
    /\ UNCHANGED <<previous, OnlyOnes, fingerprints, fingerprints_merged, plants_merged,
                   map_old_new, map_plant_orig, i, mapping, result>>

NextFractional ==
    \/ CallFractional
    \/ CheckInputs
    \/ Prepare
    \/ ScanUnit
    \/ ResolveNames
    \/ PostProcess

SpecFractional == Init /\ [][NextFractional]_vars

IsInteger(x) == x[2] = 1

SameTypeCatalogue == {PlantB, PlantC, PlantD, PlantE}

CallOrdered ==
    /\ pc = "idle"
    /\ \E n \in 0..MaxUnits, m \in StandardLike :
          \E rows \in [1..n -> {Restrict(r, AllColumns) : r \in SameTypeCatalogue}] :
             /\ input' = [columns |-> AllColumns, rows |-> rows]
             /\ columns' = AllColumns
             /\ plants' = rows
             /\ method' = m
    /\ pc' = "check"
    /\ UNCHANGED <<previous, OnlyOnes, fingerprints, fingerprints_merged, plants_merged,
                   map_old_new, map_plant_orig, i, mapping, result>>

RowOrders(n) == {p \in [1..n -> 1..n] : \A a, b \in 1..n : a # b => p[a] # p[b]}

\* the second call: row k of the new table is row perm[k] of the first one
CallReordered ==
    /\ pc = "done"
    /\ ~previous.called
    /\ \E p \in RowOrders(NIn) :
          /\ previous' = [called |-> TRUE, perm |-> p,
                          map_plant_orig |-> map_plant_orig, result |-> result]
          /\ input' = [columns |-> input.columns,
                       rows |-> [k \in 1..NIn |-> input.rows[p[k]]]]
          /\ plants' = [k \in 1..NIn |-> input.rows[p[k]]]
    /\ columns' = input.columns
    /\ OnlyOnes' = FALSE
    /\ fingerprints' = <<>>
    /\ fingerprints_merged' = <<>>
    /\ plants_merged' = <<>>
    /\ map_old_new' = <<>>
    /\ map_plant_orig' = <<>>
    /\ i' = 0
    /\ mapping' = EmptyMapping
    /\ result' = None
    /\ pc' = "check"
    /\ UNCHANGED method

NextOrdered ==
    \/ CallOrdered
    \/ CallReordered
    \/ CheckInputs
    \/ Prepare
    \/ ScanUnit
    \/ ResolveNames
    \/ PostProcess

SpecOrdered == Init /\ [][NextOrdered]_vars

\* the clusters of the first call, as sets of row positions of the first table
PreviousGroups ==
    {{m + 1 : m \in Elems(previous.map_plant_orig[j])} :
        j \in 1..Len(previous.map_plant_orig)}

\* the clusters of this call, as sets of row positions of the first table
CurrentGroups ==
    {{previous.perm[m + 1] : m \in Elems(map_plant_orig[j])} :
        j \in 1..Len(map_plant_orig)}

SameGroup(groups, a, b) == \E g \in groups : a \in g /\ b \in g

\* the second table is the first one with its first two rows exchanged
FirstTwoExchanged == NIn = 3 /\ previous.perm = <<2, 1, 3>>

\* C12: under Standard the grouping depends on the row order.  When the third
\* of three plants is eligible for the clusters of both other plants, which
\* are never merged with each other, it is grouped with whichever of them
\* comes first, so exchanging the first two rows changes the grouping; with
\* the rows in the same order the second call returns what the first returned.
C12_OrderSensitivity ==
    (pc = "done" /\ previous.called /\ method = "Standard") =>
        /\ (\A k \in 1..NIn : previous.perm[k] = k) => result = previous.result
        /\ (/\ FirstTwoExchanged
            /\ ~SameGroup(PreviousGroups, 1, 2)
            /\ ~SameGroup(CurrentGroups, 1, 2)
            /\ EligibleFor(2, 0)
            /\ EligibleFor(2, 1)) =>
              /\ SameGroup(PreviousGroups, 3, 1)
              /\ SameGroup(CurrentGroups, 3, 2)
              /\ CurrentGroups # PreviousGroups

\* two orders of the same three plants have been clustered differently
C12_Witness ==
    /\ pc = "done"
    /\ previous.called
    /\ method = "Standard"
    /\ FirstTwoExchanged
    /\ PreviousGroups = {{1, 3}, {2}}
    /\ CurrentGroups = {{2, 3}, {1}}
    /\ EligibleFor(2, 0)
    /\ EligibleFor(2, 1)

=============================================================================
